---- MODULE Spec2Model ----
(***************************************************************************)
(* A model of file-share (src/src/main.go): the configuration resolver     *)
(* (loadEnvFile .. getConfig, checkEnv), the resource collector            *)
(* (expandFiles, downloadURL), the key generator and the upload pipeline   *)
(* of main.  Strings are TLA+ strings; the string and path helpers below   *)
(* compute on their characters as the Go library functions do.             *)
(*                                                                         *)
(* An operator that uses an argument more than once takes its value first, *)
(* as the one element of a set: The({ body : x \in {argument} }).          *)
(***************************************************************************)
EXTENDS Integers, Sequences, FiniteSets, TLC

(***************************************************************************)
(* Bounds of the model.                                                    *)
(***************************************************************************)
\* longest argument list of a pipeline run
MaxArgs == 2
\* longest pattern list handed to expandFiles on its own
MaxPatterns == 2
\* longest file handed to loadEnvFile on its own, in lines
MaxLines == 2
\* the last second of the wall clock
MaxClock == 1

\* the element of a one-element set
The(S) == CHOOSE v \in S : TRUE

\* the least and the greatest element of a non-empty set of integers
Min(S) == CHOOSE k \in S : \A j \in S : k <= j

Max(S) == CHOOSE k \in S : \A j \in S : k >= j

(***************************************************************************)
(* String helpers (Go's strings package).                                  *)
(***************************************************************************)
\* s[i:] in Go, with i counted from 0
From(str, i) == The({SubSeq(s, i + 1, Len(s)) : s \in {str}})

\* s[:i] in Go
UpTo(s, i) == SubSeq(s, 1, i)

\* the character of s at (1-based) position i, as a one-character string
CharAt(s, i) == SubSeq(s, i, i)

HasPrefix(str, prefix) ==
    The({Len(s) >= Len(p) /\ SubSeq(s, 1, Len(p)) = p : s \in {str}, p \in {prefix}})

HasSuffix(str, suffix) ==
    The({Len(s) >= Len(p) /\ SubSeq(s, Len(s) - Len(p) + 1, Len(s)) = p :
            s \in {str}, p \in {suffix}})

\* the 0-based positions at which sub occurs in s
Occurrences(s, sub) ==
    {k \in 0..(Len(s) - Len(sub)) : SubSeq(s, k + 1, k + Len(sub)) = sub}

\* strings.Index: 0-based index of the first occurrence of sub, or -1
Index(str, sub) ==
    The({IF hits = {} THEN -1 ELSE Min(hits) :
            hits \in {The({Occurrences(s, t) : s \in {str}, t \in {sub}})}})

\* strings.LastIndex
LastIndex(str, sub) ==
    The({IF hits = {} THEN -1 ELSE Max(hits) :
            hits \in {The({Occurrences(s, t) : s \in {str}, t \in {sub}})}})

\* whether character c is one of the characters of cutset
InSet(c, cutset) == \E k \in 1..Len(cutset) : SubSeq(cutset, k, k) = c

\* strings.ContainsAny
ContainsAny(str, chars) ==
    The({\E k \in 1..Len(s) : InSet(SubSeq(s, k, k), chars) : s \in {str}})

\* the positions of s whose character is not in cutset
Kept(s, cutset) == {k \in 1..Len(s) : ~InSet(SubSeq(s, k, k), cutset)}

\* strings.TrimLeft: drops every leading character that is in cutset
TrimLeft(str, cutset) ==
    The({IF keep = {} THEN "" ELSE SubSeq(s, Min(keep), Len(s)) :
            <<s, keep>> \in {The({<<t, Kept(t, cutset)>> : t \in {str}})}})

\* strings.TrimRight: drops every trailing character that is in cutset
TrimRight(str, cutset) ==
    The({IF keep = {} THEN "" ELSE SubSeq(s, 1, Max(keep)) :
            <<s, keep>> \in {The({<<t, Kept(t, cutset)>> : t \in {str}})}})

\* strings.Trim
Trim(s, cutset) == TrimRight(TrimLeft(s, cutset), cutset)

\* strings.TrimSuffix
TrimSuffix(str, suffix) ==
    The({IF HasSuffix(s, suffix) THEN SubSeq(s, 1, Len(s) - Len(suffix)) ELSE s :
            s \in {str}})

\* strings.Join(seq, sep)
RECURSIVE Join(_, _)
Join(strs, sep) ==
    The({IF seq = <<>> THEN ""
         ELSE IF Len(seq) = 1 THEN seq[1]
         ELSE seq[1] \o sep \o Join(Tail(seq), sep) : seq \in {strs}})

(***************************************************************************)
(* Path helpers (Go's path/filepath package, Unix separator).              *)
(***************************************************************************)
\* filepath.Base
Base(path) ==
    The({IF p = "" THEN (IF path = "" THEN "." ELSE "/")
         ELSE From(p, LastIndex(p, "/") + 1) : p \in {TrimRight(path, "/")}})

\* the positions of the dots in the last element of path
ExtDots(path) ==
    {k \in 1..Len(path) :
        /\ SubSeq(path, k, k) = "."
        /\ \A j \in k..Len(path) : SubSeq(path, j, j) # "/"}

\* filepath.Ext: the suffix of the last element from its last dot on
Ext(path) ==
    The({IF dots = {} THEN "" ELSE SubSeq(p, Max(dots), Len(p)) :
            <<p, dots>> \in {The({<<q, ExtDots(q)>> : q \in {path}})}})

\* filepath.Match: "*" matches any run of non-separator characters, "?"
\* any one non-separator character, every other character itself
RECURSIVE MatchValue(_, _)
MatchValue(pattern, name) ==
    IF pattern = "" THEN name = ""
    ELSE IF SubSeq(pattern, 1, 1) = "*"
    THEN \E k \in 0..Len(name) :
            /\ \A j \in 1..k : SubSeq(name, j, j) # "/"
            /\ \E rest \in {Tail(pattern)}, tail \in {SubSeq(name, k + 1, Len(name))} :
                  MatchValue(rest, tail)
    ELSE /\ name # ""
         /\ IF SubSeq(pattern, 1, 1) = "?" THEN SubSeq(name, 1, 1) # "/"
            ELSE SubSeq(name, 1, 1) = SubSeq(pattern, 1, 1)
         /\ \E rest \in {Tail(pattern)}, tail \in {Tail(name)} : MatchValue(rest, tail)

Match(pattern, name) == \E p \in {pattern}, n \in {name} : MatchValue(p, n)

\* strings.Split(s, "/")
RECURSIVE SplitPath(_)
SplitPath(str) ==
    The({IF k = -1 THEN <<s>>
         ELSE <<SubSeq(s, 1, k)>> \o SplitPath(SubSeq(s, k + 2, Len(s))) :
            <<s, k>> \in {The({<<t, Index(t, "/")>> : t \in {str}})}})

\* the elements filepath.Clean keeps of elems, given those kept so far
RECURSIVE CleanElems(_, _, _)
CleanElems(keptSoFar, elements, rooted) ==
    The({IF elems = <<>> THEN kept
         ELSE IF elems[1] = "" \/ elems[1] = "." THEN CleanElems(kept, Tail(elems), rooted)
         ELSE IF elems[1] = ".."
         THEN IF kept # <<>> /\ kept[Len(kept)] # ".."
              THEN CleanElems(SubSeq(kept, 1, Len(kept) - 1), Tail(elems), rooted)
              ELSE IF rooted THEN CleanElems(kept, Tail(elems), rooted)
              ELSE CleanElems(Append(kept, elems[1]), Tail(elems), rooted)
         ELSE CleanElems(Append(kept, elems[1]), Tail(elems), rooted) :
            kept \in {keptSoFar}, elems \in {elements}})

\* filepath.Clean
Clean(path) ==
    The({IF HasPrefix(p, "/") THEN "/" \o body ELSE IF body = "" THEN "." ELSE body :
            <<p, body>> \in
               {The({<<q, Join(CleanElems(<<>>, SplitPath(q), HasPrefix(q, "/")), "/")>> :
                        q \in {path}})}})

\* filepath.Dir
Dir(path) == The({Clean(SubSeq(p, 1, LastIndex(p, "/") + 1)) : p \in {path}})

\* the elements of a cleaned path as filepath.Rel walks them
RelElems(path) ==
    The({IF p = "" THEN <<>> ELSE IF p = "/" THEN <<"">> ELSE SplitPath(p) : p \in {path}})

\* the number of leading elements two element lists share
RECURSIVE CommonLen(_, _)
CommonLen(first, second) ==
    The({IF a = <<>> \/ b = <<>> THEN 0
         ELSE IF a[1] # b[1] THEN 0
         ELSE 1 + CommonLen(Tail(a), Tail(b)) : a \in {first}, b \in {second}})

\* filepath.Rel once both paths are cleaned: be and te are their elements
RelCleaned(cbase, targ, be, te, c) ==
    IF targ = cbase THEN [path |-> ".", ok |-> TRUE]
    ELSE IF HasPrefix(IF cbase = "." THEN "" ELSE cbase, "/") # HasPrefix(targ, "/")
    THEN [path |-> "", ok |-> FALSE]
    ELSE IF c < Len(be) /\ c < Len(te) /\ be[c + 1] = ".."
    THEN [path |-> "", ok |-> FALSE]
    ELSE IF c < Len(be)
    THEN [path |-> Join([k \in 1..(Len(be) - c) |-> ".."] \o SubSeq(te, c + 1, Len(te)), "/"),
          ok |-> TRUE]
    ELSE [path |-> Join(SubSeq(te, c + 1, Len(te)), "/"), ok |-> TRUE]

\* filepath.Rel(basepath, targpath): (path, ok)
Rel(basepath, targpath) ==
    The({The({RelCleaned(cbase, targ, be, te, CommonLen(be, te)) :
                be \in {RelElems(IF cbase = "." THEN "" ELSE cbase)},
                te \in {RelElems(targ)}}) :
            cbase \in {Clean(basepath)}, targ \in {Clean(targpath)}})

(***************************************************************************)
(* The file system the program runs on: a fixed tree, listed in the        *)
(* lexical order in which filepath.Walk and filepath.Glob report names.    *)
(***************************************************************************)
FSEntries ==
    << [path |-> "a.txt",     isDir |-> FALSE],
       [path |-> "b.txt",     isDir |-> FALSE],
       [path |-> "d",         isDir |-> TRUE],
       [path |-> "d/a.txt",   isDir |-> FALSE],
       [path |-> "d/s",       isDir |-> TRUE],
       [path |-> "d/s/c.txt", isDir |-> FALSE],
       [path |-> "/e.txt",    isDir |-> FALSE] >>

FSPaths == {FSEntries[k].path : k \in 1..Len(FSEntries)}

FSDirs == {FSEntries[k].path : k \in {j \in 1..Len(FSEntries) : FSEntries[j].isDir}}

\* os.Stat(path): err == nil
Exists(path) == path \in FSPaths

\* os.Stat(path): err == nil && info.IsDir()
IsDir(path) == path \in FSDirs

RECURSIVE MapPath(_)
MapPath(entries) ==
    The({IF es = <<>> THEN <<>> ELSE <<es[1].path>> \o MapPath(Tail(es)) :
            es \in {entries}})

\* filepath.Glob(pattern): the existing names the pattern matches, sorted
Glob(pattern) ==
    The({LET Test(e) == MatchValue(p, e.path) IN MapPath(SelectSeq(FSEntries, Test)) :
            p \in {pattern}})

\* filepath.Walk(root, fn) with the callback of expandFiles: the
\* non-directories at or below root, in walk order
WalkFiles(root) ==
    The({LET Test(e) == (e.path = r \/ HasPrefix(e.path, r \o "/")) /\ ~e.isDir
         IN  MapPath(SelectSeq(FSEntries, Test)) : r \in {root}})

(***************************************************************************)
(* Errors: a kind and the text the message names.                          *)
(***************************************************************************)
NoErr == [kind |-> "none", what |-> ""]

Err(kind, what) == [kind |-> kind, what |-> what]

(***************************************************************************)
(* expandFiles                                                             *)
(***************************************************************************)
\* a glob branch that keeps the directories among the matches (not the
\* program's)
ExpandGlobKeepDirs(pattern, matches) ==
    IF Len(matches) = 0
    THEN [files |-> <<>>, err |-> Err("no files matched", pattern)]
    ELSE [files |-> matches, err |-> NoErr]

\* the glob branch of expandFiles: matches is what filepath.Glob returned
ExpandGlob(pattern, matches) ==
    LET NotDir(m) == Exists(m) /\ ~IsDir(m)
    IN  IF Len(matches) = 0
        THEN [files |-> <<>>, err |-> Err("no files matched", pattern)]
        ELSE [files |-> SelectSeq(matches, NotDir), err |-> NoErr]

\* the loop body of expandFiles for one pattern: the files it appends, or
\* the error it returns
ExpandOne(pattern, recursive) ==
    IF IsDir(pattern)
    THEN IF recursive
         THEN [files |-> WalkFiles(pattern), err |-> NoErr]
         ELSE [files |-> <<>>, err |-> Err("is a directory", pattern)]
    ELSE IF ContainsAny(pattern, "*?")
    THEN The({ExpandGlob(pattern, matches) : matches \in {Glob(pattern)}})
    ELSE IF ~Exists(pattern)
    THEN [files |-> <<>>, err |-> Err("file not found", pattern)]
    ELSE [files |-> <<pattern>>, err |-> NoErr]

\* the loop of expandFiles from the files collected so far; an error drops them
RECURSIVE ExpandLoop(_, _, _)
ExpandLoop(files, patterns, recursive) ==
    IF patterns = <<>> THEN [files |-> files, err |-> NoErr]
    ELSE The({IF one.err # NoErr
              THEN [files |-> <<>>, err |-> one.err]
              ELSE The({ExpandLoop(fs, rest, recursive) :
                          fs \in {files \o one.files}, rest \in {Tail(patterns)}}) :
                 one \in {ExpandOne(patterns[1], recursive)}})

\* the final check of expandFiles: an empty list is an error
ExpandEmptyCheck(r) ==
    IF r.err = NoErr /\ Len(r.files) = 0
    THEN [files |-> <<>>, err |-> Err("no files to upload", "")]
    ELSE r

ExpandFiles(patterns, recursive) ==
    The({ExpandEmptyCheck(r) : r \in {ExpandLoop(<<>>, patterns, recursive)}})

(***************************************************************************)
(* Configuration: Config, loadEnvFile, configFromEnvFile, mergeConfig.     *)
(* A *Config is a record with the six fields and isNil, the nil pointer.   *)
(***************************************************************************)
NilConfig ==
    [isNil |-> TRUE, AccessKeyID |-> "", AccessKeySecret |-> "", BucketName |-> "",
     Endpoint |-> "", Domain |-> "", Prefix |-> ""]

\* &Config{}
EmptyConfig == [NilConfig EXCEPT !.isNil = FALSE]

\* a file of the configuration: state "nodir" (the directory it lives in
\* could not be determined), "missing" (os.Open fails) or "file" (its lines)
NoDir == [state |-> "nodir", lines |-> <<>>]

NoFile == [state |-> "missing", lines |-> <<>>]

FileOf(lines) == [state |-> "file", lines |-> lines]

\* strings.TrimSpace
TrimSpace(s) == Trim(s, " \t")

\* map lookup env[key]: the zero value for an absent key
Get(env, key) == IF key \in DOMAIN env THEN env[key] ELSE ""

\* env[key] = value
Put(env, key, value) ==
    [k \in (DOMAIN env) \cup {key} |-> IF k = key THEN value ELSE env[k]]

\* KEY=VALUE, split at the "=" at position eq of line
ParseSetting(env, line, eq) ==
    The({Put(env, key, value) :
            key \in {TrimSpace(SubSeq(line, 1, eq))},
            value \in {Trim(TrimSpace(SubSeq(line, eq + 2, Len(line))), "\"'")}})

\* the loop body of loadEnvFile for one line of the file
ParseLine(env, text) ==
    The({IF line = "" \/ HasPrefix(line, "#") THEN env
         ELSE The({IF eq = -1 THEN env ELSE ParseSetting(env, line, eq) :
                     eq \in {Index(line, "=")}}) :
            line \in {TrimSpace(text)}})

RECURSIVE ParseLines(_, _)
ParseLines(env, lines) ==
    IF lines = <<>> THEN env
    ELSE The({ParseLines(e, rest) :
                 e \in {ParseLine(env, lines[1])}, rest \in {Tail(lines)}})

\* loadEnvFile: isNil when the file cannot be opened
loadEnvFile(file) ==
    IF file.state # "file" THEN [isNil |-> TRUE, env |-> <<>>]
    ELSE [isNil |-> FALSE, env |-> ParseLines(<<>>, file.lines)]

\* the Config read off a map of settings
ConfigOf(env) ==
    [isNil |-> FALSE,
     AccessKeyID     |-> Get(env, "OSS_ACCESS_KEY_ID"),
     AccessKeySecret |-> Get(env, "OSS_ACCESS_KEY_SECRET"),
     BucketName      |-> Get(env, "OSS_BUCKET_NAME"),
     Endpoint        |-> Get(env, "OSS_ENDPOINT"),
     Domain          |-> Get(env, "OSS_DOMAIN"),
     Prefix          |-> Get(env, "OSS_PREFIX")]

configFromEnvFile(loaded) ==
    The({IF l.isNil THEN NilConfig ELSE ConfigOf(l.env) : l \in {loaded}})

\* a merge in which the low-priority value wins (not the program's)
MergeFieldLowWins(lowValue, highValue) == IF lowValue # "" THEN lowValue ELSE highValue

\* one field of mergeConfig: high overrides low when it is not empty
MergeField(lowValue, highValue) == IF highValue # "" THEN highValue ELSE lowValue

\* mergeConfig when neither is nil
MergeFields(low, high) ==
    [isNil |-> FALSE,
     AccessKeyID     |-> MergeField(low.AccessKeyID, high.AccessKeyID),
     AccessKeySecret |-> MergeField(low.AccessKeySecret, high.AccessKeySecret),
     BucketName      |-> MergeField(low.BucketName, high.BucketName),
     Endpoint        |-> MergeField(low.Endpoint, high.Endpoint),
     Domain          |-> MergeField(low.Domain, high.Domain),
     Prefix          |-> MergeField(low.Prefix, high.Prefix)]

mergeConfig(lowConfig, highConfig) ==
    The({IF low.isNil THEN high
         ELSE IF high.isNil THEN low
         ELSE MergeFields(low, high) : low \in {lowConfig}, high \in {highConfig}})

(***************************************************************************)
(* getConfig.  src is what the run finds around it: the three layered      *)
(* files, the file at the --config path and the environment variables.     *)
(***************************************************************************)
\* the fragment a layered file contributes; a file whose directory is not
\* known is not loaded at all
LayerFragment(file) ==
    IF file.state = "nodir" THEN NilConfig ELSE configFromEnvFile(loadEnvFile(file))

\* the Config built from the environment variables
envVarConfig(environ) == ConfigOf(environ)

\* the files merged from low to high priority when no --config is given
LayeredFiles(src) ==
    mergeConfig(mergeConfig(mergeConfig(NilConfig, LayerFragment(src.home)),
                            LayerFragment(src.skill)),
                LayerFragment(src.cwd))

\* the file part of getConfig: the --config file alone, or the layers
FromFiles(src, customConfigPath) ==
    IF customConfigPath # "" THEN configFromEnvFile(loadEnvFile(src.custom))
    ELSE LayeredFiles(src)

\* config after the merge with the environment variables, nil replaced by
\* &Config{}; valid says whether the --config file could be read
MergedConfig(src, customConfigPath) ==
    The({IF customConfigPath # "" /\ fromFiles.isNil
         THEN [valid |-> FALSE, config |-> NilConfig]
         ELSE The({[valid |-> TRUE, config |-> IF m.isNil THEN EmptyConfig ELSE m] :
                     m \in {mergeConfig(fromFiles, envVarConfig(src.environ))}}) :
            fromFiles \in {FromFiles(src, customConfigPath)}})

\* a check that stops at the first empty required field (not the program's)
MissingFieldsFirstOnly(config) ==
    IF config.AccessKeyID = "" THEN <<"access_key_id">>
    ELSE IF config.AccessKeySecret = "" THEN <<"access_key_secret">>
    ELSE IF config.BucketName = "" THEN <<"bucket_name">>
    ELSE IF config.Endpoint = "" THEN <<"endpoint">>
    ELSE <<>>

\* the check of the required fields: the names of the empty ones, in order
MissingFields(config) ==
    (IF config.AccessKeyID = "" THEN <<"access_key_id">> ELSE <<>>)
    \o (IF config.AccessKeySecret = "" THEN <<"access_key_secret">> ELSE <<>>)
    \o (IF config.BucketName = "" THEN <<"bucket_name">> ELSE <<>>)
    \o (IF config.Endpoint = "" THEN <<"endpoint">> ELSE <<>>)

\* the end of getConfig: m is the merged configuration, missing the names
\* of its empty required fields
CheckRequired(m, missing, customConfigPath) ==
    IF ~m.valid
    THEN [config |-> NilConfig, merged |-> NilConfig,
          err |-> Err("cannot read config file", customConfigPath)]
    ELSE IF Len(missing) > 0
    THEN [config |-> NilConfig, merged |-> m.config,
          err |-> Err("missing config", Join(missing, ", "))]
    ELSE [config |-> m.config, merged |-> m.config, err |-> NoErr]

\* getConfig: (config, err); merged is its local variable config before the
\* check of the required fields
getConfig(src, customConfigPath) ==
    The({The({CheckRequired(m, missing, customConfigPath) :
                missing \in {MissingFields(m.config)}}) :
            m \in {MergedConfig(src, customConfigPath)}})

\* getConfigSources: the sources found, for the report of --check
getConfigSources(src) ==
    (IF src.home.state = "file" THEN <<"~/.oss-upload.env">> ELSE <<>>)
    \o (IF src.skill.state = "file" THEN <<"<skill-dir>/.env">> ELSE <<>>)
    \o (IF src.cwd.state = "file" THEN <<".env (current dir)">> ELSE <<>>)
    \o (IF Get(src.environ, "OSS_ACCESS_KEY_ID") # ""
        THEN <<"environment variables">> ELSE <<>>)

(***************************************************************************)
(* generateOSSKey, getFileURL                                              *)
(***************************************************************************)
\* time.Now().Format("20060102_150405") at second t of the run
Timestamp(t) == "20260101_00000" \o ToString(t)

\* the key before the prefix: base with the timestamp before its extension
StampedName(base, ext, noTimestamp, t) ==
    IF noTimestamp THEN base
    ELSE TrimSuffix(base, ext) \o "_" \o Timestamp(t) \o ext

generateOSSKey(filename, prefix, noTimestamp, t) ==
    The({The({IF prefix # "" THEN Trim(prefix, "/") \o "/" \o key ELSE key :
                key \in {StampedName(base, Ext(base), noTimestamp, t)}}) :
            base \in {Base(filename)}})

\* the URL under a custom domain
DomainURL(domain, ossKey) ==
    (IF ~HasPrefix(domain, "http://") /\ ~HasPrefix(domain, "https://")
     THEN "https://" \o domain ELSE domain) \o "/" \o ossKey

\* the URL under the endpoint of the bucket
EndpointURL(endpoint, bucketName, ossKey) ==
    (IF HasPrefix(endpoint, "http://")
     THEN "http://" \o bucketName \o "." \o From(endpoint, 7)
     ELSE IF HasPrefix(endpoint, "https://")
     THEN "https://" \o bucketName \o "." \o From(endpoint, 8)
     ELSE "https://" \o bucketName \o "." \o endpoint) \o "/" \o ossKey

getFileURL(cfg, ossKey) ==
    IF cfg.Domain # ""
    THEN The({DomainURL(domain, ossKey) : domain \in {TrimRight(cfg.Domain, "/")}})
    ELSE EndpointURL(cfg.Endpoint, cfg.BucketName, ossKey)

(***************************************************************************)
(* isURL, getFilenameFromURL, downloadURL                                  *)
(***************************************************************************)
isURL(s) == HasPrefix(s, "http://") \/ HasPrefix(s, "https://")

\* s up to the first occurrence of mark, all of s when there is none
Before(str, mark) ==
    The({IF k = -1 THEN str ELSE SubSeq(str, 1, k) : k \in {Index(str, mark)}})

\* s from the first occurrence of mark on, "" when there is none
FromMark(str, mark) ==
    The({IF k = -1 THEN "" ELSE SubSeq(str, k + 1, Len(str)) : k \in {Index(str, mark)}})

\* url.Parse(urlStr).Path of an http(s) URL: what follows the authority,
\* without the query and the fragment
URLPath(urlStr) ==
    The({The({FromMark(rest, "/") : rest \in {From(s, Index(s, "://") + 3)}}) :
            s \in {Before(Before(urlStr, "#"), "?")}})

\* the end of getFilenameFromURL: path is u.Path
FilenameOfPath(path) ==
    IF path = "" \/ path = "/" THEN "downloaded_file"
    ELSE The({IF filename = "" \/ filename = "." THEN "downloaded_file" ELSE filename :
                 filename \in {Before(Base(path), "?")}})

getFilenameFromURL(urlStr) == The({FilenameOfPath(path) : path \in {URLPath(urlStr)}})

\* the file name a Content-Disposition header gives, "" when it gives none
DispositionFilename(cd) ==
    The({IF cd = "" \/ idx = -1 THEN ""
         ELSE Trim(SubSeq(cd, idx + 10, Len(cd)), "\"'") : idx \in {Index(cd, "filename=")}})

\* the name downloadURL gives the download: the Content-Disposition file
\* name when the header has one, else the name from the URL
DownloadFilename(urlStr, cd) ==
    The({IF fn # "" THEN fn ELSE getFilenameFromURL(urlStr) :
            fn \in {DispositionFilename(cd)}})

\* os.CreateTemp("", "oss-download-*"+ext): n stands for the random part
DownloadTmpPath(n, ext) == "/tmp/oss-download-" \o ToString(n) \o ext

\* what the network and the disk do to one download: the transport, the
\* status, the Content-Disposition header, CreateTemp and io.Copy
Responses ==
    { [transport |-> TRUE,  status |-> 200, cd |-> "", create |-> TRUE, copy |-> TRUE],
      [transport |-> TRUE,  status |-> 200, cd |-> "attachment; filename=\"r.pdf\"",
       create |-> TRUE, copy |-> TRUE],
      [transport |-> FALSE, status |-> 0,   cd |-> "", create |-> TRUE, copy |-> TRUE],
      [transport |-> TRUE,  status |-> 404, cd |-> "", create |-> TRUE, copy |-> TRUE],
      [transport |-> TRUE,  status |-> 200, cd |-> "", create |-> FALSE, copy |-> TRUE],
      [transport |-> TRUE,  status |-> 200, cd |-> "", create |-> TRUE, copy |-> FALSE] }

\* downloadURL returning an error; created is the temporary file it
\* created and removed again, "" when it created none
DownloadFailed(err, created) ==
    [tmpPath |-> "", filename |-> "", err |-> err, created |-> created,
     removed |-> created # ""]

\* a download that removes its temporary file as soon as it is saved (not
\* the program's)
DownloadSaveRemoves(resp, filename, tmpPath) ==
    IF ~resp.create THEN DownloadFailed(Err("failed to create temp file", ""), "")
    ELSE IF ~resp.copy
    THEN DownloadFailed(Err("failed to save downloaded file", ""), tmpPath)
    ELSE [tmpPath |-> tmpPath, filename |-> filename, err |-> NoErr,
          created |-> tmpPath, removed |-> TRUE]

\* downloadURL once the response is in: filename and the temporary file
DownloadSave(resp, filename, tmpPath) ==
    IF ~resp.create THEN DownloadFailed(Err("failed to create temp file", ""), "")
    ELSE IF ~resp.copy
    THEN DownloadFailed(Err("failed to save downloaded file", ""), tmpPath)
    ELSE [tmpPath |-> tmpPath, filename |-> filename, err |-> NoErr,
          created |-> tmpPath, removed |-> FALSE]

\* downloadURL: (tmpPath, filename, err), with created, the temporary file
\* it created, and removed, whether it removed that file again
downloadURL(urlStr, resp, n) ==
    IF ~resp.transport \/ resp.status # 200
    THEN DownloadFailed(Err("failed to download", urlStr), "")
    ELSE The({DownloadSave(resp, filename, DownloadTmpPath(n, Ext(filename))) :
                 filename \in {DownloadFilename(urlStr, resp.cd)}})

(***************************************************************************)
(* The state of one run of the program.                                    *)
(***************************************************************************)
VARIABLES
    args,             \* flag.Args()
    flags,            \* the parsed command-line flags
    pc,               \* where main stands
    idx,              \* the index of the loop main is in (1-based)
    localArgs,        \* main: localArgs
    downloadedFiles,  \* main: downloadedFiles
    expanded,         \* what expandFiles returned: (files, err)
    files,            \* main: files, the manifest
    tmpToFilename,    \* main: tmpToFilename
    deferred,         \* the deferred calls of main, oldest first
    disk,             \* the temporary files that exist
    createLog,        \* every temporary file created, in order
    removeLog,        \* every os.Remove call, in order
    nextTmp,          \* the random part of the next temporary file name
    net,              \* every network call issued, in order
    sources,          \* the configuration sources getConfig read
    merged,           \* getConfig: config before the required-field check
    config,           \* main: config
    ossPrefix,        \* main: ossPrefix
    baseDir,          \* main: baseDir
    zipName,          \* main: name, the name of the archive
    zipPath,          \* main: zipPath
    zipEntries,       \* the header names written into the archive, in order
    results,          \* main: results (separate mode)
    stdout,           \* the text lines printed to stdout
    jsonOut,          \* the Result envelopes printed to stdout
    stderr,           \* what was printed to stderr
    exitCode,         \* the exit code of the process, -1 while it runs
    checkResult,      \* the CheckResult printed by checkEnv
    now               \* the wall clock, in seconds

vars ==
    <<args, flags, pc, idx, localArgs, downloadedFiles, expanded, files, tmpToFilename,
      deferred, disk, createLog, removeLog, nextTmp, net, sources, merged, config,
      ossPrefix, baseDir, zipName, zipPath, zipEntries, results, stdout, jsonOut, stderr,
      exitCode, checkResult, now>>

\* the flags at their default values
DefaultFlags ==
    [zip |-> FALSE, zipName |-> "", prefix |-> "", check |-> FALSE, version |-> FALSE,
     quiet |-> FALSE, noTimestamp |-> FALSE, recursive |-> FALSE, dryRun |-> FALSE,
     config |-> "", preservePath |-> FALSE]

\* var Version
Version == "1.2.0"

\* no configuration source read yet
NoSources ==
    [home |-> NoFile, skill |-> NoFile, cwd |-> NoFile, custom |-> NoFile, environ |-> <<>>]

\* the zero Result
ZeroResult ==
    [Success |-> FALSE, Mode |-> "", ZipName |-> "", FilesIncluded |-> <<>>, URL |-> "",
     Results |-> <<>>, Error |-> ""]

\* the zero CheckResult
ZeroCheck ==
    [printed |-> FALSE, Ready |-> FALSE, EnvVars |-> <<>>, OptionalVars |-> <<>>,
     Missing |-> <<>>, Suggestions |-> <<>>, ConfigSource |-> ""]

\* all sequences over S of length at most n
SeqsUpTo(S, n) == UNION {[1..k -> S] : k \in 0..n}

\* the state of the process when main starts, but for args, flags and pc
InitRest ==
    /\ idx = 1
    /\ localArgs = <<>>
    /\ downloadedFiles = <<>>
    /\ expanded = [files |-> <<>>, err |-> NoErr]
    /\ files = <<>>
    /\ tmpToFilename = <<>>
    /\ deferred = <<>>
    /\ disk = {}
    /\ createLog = <<>>
    /\ removeLog = <<>>
    /\ nextTmp = 1
    /\ net = <<>>
    /\ sources = NoSources
    /\ merged = NilConfig
    /\ config = NilConfig
    /\ ossPrefix = ""
    /\ baseDir = ""
    /\ zipName = ""
    /\ zipPath = ""
    /\ zipEntries = <<>>
    /\ results = <<>>
    /\ stdout = <<>>
    /\ jsonOut = <<>>
    /\ stderr = <<>>
    /\ exitCode = -1
    /\ checkResult = ZeroCheck
    /\ now = 0

\* the arguments the runs are given: files, a directory, glob patterns (one
\* matching only a directory, one overlapping a named file), a missing
\* path and URLs (one without a file name)
ArgChoices ==
    {"a.txt", "d", "d*", "*.txt", "nope", "https://h/image.png", "https://h/"}

\* the flag combinations the runs are given
FlagChoices ==
    {[DefaultFlags EXCEPT !.zip = z, !.dryRun = dr, !.recursive = r, !.quiet = q] :
        z \in BOOLEAN, dr \in BOOLEAN, r \in BOOLEAN, q \in BOOLEAN}

Init ==
    /\ \/ /\ args \in SeqsUpTo(ArgChoices, MaxArgs)
          /\ flags \in FlagChoices
       \/ /\ args = <<>>
          /\ flags \in {[DefaultFlags EXCEPT !.version = TRUE],
                        [DefaultFlags EXCEPT !.check = TRUE],
                        [DefaultFlags EXCEPT !.check = TRUE, !.config = "my.env"]}
       \/ /\ args = <<"a.txt">>
          /\ flags = [DefaultFlags EXCEPT !.config = "my.env"]
    /\ pc = "start"
    /\ InitRest

(***************************************************************************)
(* outputError, outputResult, os.Exit                                      *)
(***************************************************************************)
\* one thing printed to stderr: form is "json" (the error envelope), "text"
\* (quiet mode's "Error:" line) or "note" (a progress or usage line)
ErrLine(form, err) == [form |-> form, err |-> err]

\* os.Exit(code): the process ends at once; deferred calls do not run
Exit(code) ==
    /\ exitCode' = code
    /\ pc' = "exited"

\* outputError(err) after errStream was printed to stderr
outputError(errStream, err) ==
    /\ stderr' = Append(errStream, ErrLine(IF flags.quiet THEN "text" ELSE "json", err))
    /\ Exit(1)

\* the URL lines quiet mode prints for a result
RECURSIVE ResultURLs(_)
ResultURLs(rs) == IF rs = <<>> THEN <<>> ELSE <<Head(rs).URL>> \o ResultURLs(Tail(rs))

\* outputResult(result)
outputResult(result) ==
    IF flags.quiet
    THEN /\ stdout' = stdout \o (IF result.Mode = "zip" THEN <<result.URL>>
                                 ELSE ResultURLs(result.Results))
         /\ UNCHANGED jsonOut
    ELSE /\ jsonOut' = Append(jsonOut, result)
         /\ UNCHANGED stdout

(***************************************************************************)
(* checkEnv                                                                *)
(***************************************************************************)
RequiredKeys == {"access_key_id", "access_key_secret", "bucket_name", "endpoint"}

\* result.EnvVars: config is what getConfig returned, nil on an error
CheckEnvVars(cfg) ==
    [k \in RequiredKeys |->
        IF cfg.isNil THEN FALSE
        ELSE IF k = "access_key_id" THEN cfg.AccessKeyID # ""
        ELSE IF k = "access_key_secret" THEN cfg.AccessKeySecret # ""
        ELSE IF k = "bucket_name" THEN cfg.BucketName # ""
        ELSE cfg.Endpoint # ""]

\* result.OptionalVars
CheckOptionalVars(cfg) ==
    [k \in {"domain", "prefix"} |->
        IF cfg.isNil THEN FALSE
        ELSE IF k = "domain" THEN cfg.Domain # "" ELSE cfg.Prefix # ""]

\* the orders in which ranging over a Go map may visit the keys in S
RangeOrders(S) ==
    {o \in [1..Cardinality(S) -> S] : \A a, b \in 1..Cardinality(S) : a # b => o[a] # o[b]}

\* the suggestions printed when something is missing
CheckSuggestions(missing) ==
    IF Len(missing) > 0
    THEN << "Missing config: " \o Join(missing, ", "),
            "Configuration methods (priority low to high):",
            "  1. ~/.oss-upload.env (global)",
            "  2. <skill-dir>/.env",
            "  3. .env (current directory)",
            "  4. Environment variables (OSS_ACCESS_KEY_ID, etc.)" >>
    ELSE <<>>

\* checkEnv, finding src around it
CheckEnvIn(src) ==
    /\ \E got \in {getConfig(src, flags.config)} :
       \E envVars \in {CheckEnvVars(got.config)} :
           /\ sources' = src
           /\ merged' = got.merged
           /\ \E missing \in RangeOrders({k \in RequiredKeys : ~envVars[k]}) :
                 /\ checkResult' =
                       [printed |-> TRUE,
                        Ready |-> \A k \in RequiredKeys : envVars[k],
                        EnvVars |-> envVars,
                        OptionalVars |-> CheckOptionalVars(got.config),
                        Missing |-> missing,
                        Suggestions |-> CheckSuggestions(missing),
                        ConfigSource |-> Join(getConfigSources(src), " -> ")]
                 /\ stderr' = Append(stderr,
                       ErrLine("note", Err(IF missing = <<>> THEN "Ready to upload"
                                           ELSE "Not ready", "")))
                 /\ Exit(IF missing = <<>> THEN 0 ELSE 1)
    /\ UNCHANGED <<args, flags, idx, localArgs, downloadedFiles, expanded, files,
                   tmpToFilename, deferred, disk, createLog, removeLog, nextTmp, net,
                   config, ossPrefix, baseDir, zipName, zipPath, zipEntries, results, stdout, jsonOut, now>>

(***************************************************************************)
(* main                                                                    *)
(***************************************************************************)
\* --version
ShowVersion ==
    /\ pc = "start"
    /\ flags.version
    /\ stdout' = Append(stdout, "file-share version " \o Version)
    /\ Exit(0)
    /\ UNCHANGED <<args, flags, idx, localArgs, downloadedFiles, expanded, files,
                   tmpToFilename, deferred, disk, createLog, removeLog, nextTmp, net,
                   sources, merged, config, ossPrefix, baseDir, zipName, zipPath, zipEntries, results, jsonOut, stderr,
                   checkResult, now>>

\* no arguments: the usage text and exit code 1
Usage ==
    /\ pc = "start"
    /\ ~flags.version
    /\ ~flags.check
    /\ Len(args) = 0
    /\ stderr' = Append(stderr, ErrLine("note", Err("Usage", "")))
    /\ Exit(1)
    /\ UNCHANGED <<args, flags, idx, localArgs, downloadedFiles, expanded, files,
                   tmpToFilename, deferred, disk, createLog, removeLog, nextTmp, net,
                   sources, merged, config, ossPrefix, baseDir, zipName, zipPath, zipEntries, results, stdout, jsonOut,
                   checkResult, now>>

\* main enters the loop over its arguments
BeginArgs ==
    /\ pc = "start"
    /\ ~flags.version
    /\ ~flags.check
    /\ Len(args) > 0
    /\ pc' = "args"
    /\ idx' = 1
    /\ UNCHANGED <<args, flags, localArgs, downloadedFiles, expanded, files,
                   tmpToFilename, deferred, disk, createLog, removeLog, nextTmp, net,
                   sources, merged, config, ossPrefix, baseDir, zipName, zipPath, zipEntries, results, stdout, jsonOut,
                   stderr, exitCode, checkResult, now>>

\* the loop over the arguments: a local argument is kept for expandFiles
LocalArg ==
    /\ pc = "args"
    /\ idx <= Len(args)
    /\ ~isURL(args[idx])
    /\ localArgs' = Append(localArgs, args[idx])
    /\ idx' = idx + 1
    /\ UNCHANGED <<args, flags, pc, downloadedFiles, expanded, files, tmpToFilename,
                   deferred, disk, createLog, removeLog, nextTmp, net, sources, merged,
                   config, ossPrefix, baseDir, zipName, zipPath, zipEntries, results, stdout, jsonOut, stderr, exitCode,
                   checkResult, now>>

\* one network call in the log
NetCall(op, target, file, ok) == [op |-> op, target |-> target, file |-> file, ok |-> ok]

\* the loop over the arguments: a URL argument is downloaded at once
DownloadArg ==
    /\ pc = "args"
    /\ idx <= Len(args)
    /\ isURL(args[idx])
    /\ \E resp \in Responses :
          \E got \in {downloadURL(args[idx], resp, nextTmp)},
             progress \in {IF flags.quiet THEN stderr
                           ELSE Append(stderr,
                                       ErrLine("note", Err("Downloading", args[idx])))} :
              /\ net' = Append(net, NetCall("GET", args[idx], "", got.err = NoErr))
              /\ createLog' = IF got.created # "" THEN Append(createLog, got.created)
                              ELSE createLog
              /\ nextTmp' = IF got.created # "" THEN nextTmp + 1 ELSE nextTmp
              /\ removeLog' = IF got.removed THEN Append(removeLog, got.created)
                              ELSE removeLog
              /\ disk' = IF got.created # "" /\ ~got.removed THEN disk \cup {got.created}
                         ELSE disk
              /\ IF got.err # NoErr
                 THEN /\ outputError(progress, got.err)
                      /\ UNCHANGED <<downloadedFiles, idx>>
                 ELSE /\ downloadedFiles' = Append(downloadedFiles,
                            [TmpPath |-> got.tmpPath, Filename |-> got.filename,
                             OrigURL |-> args[idx]])
                      /\ idx' = idx + 1
                      /\ stderr' = progress
                      /\ UNCHANGED <<pc, exitCode>>
    /\ UNCHANGED <<args, flags, localArgs, expanded, files, tmpToFilename, deferred,
                   sources, merged, config, ossPrefix, baseDir, zipName, zipPath, zipEntries, results, stdout, jsonOut,
                   checkResult, now>>

\* the TmpPath of each downloaded file, in order
RECURSIVE TmpPaths(_)
TmpPaths(dfs) == IF dfs = <<>> THEN <<>> ELSE <<Head(dfs).TmpPath>> \o TmpPaths(Tail(dfs))

\* a manifest with the downloaded files first (not the program's)
ManifestDownloadsFirst(expandedFiles, dfs) == TmpPaths(dfs) \o expandedFiles

\* the manifest: the expanded local files, then the downloaded files
Manifest(expandedFiles, dfs) == expandedFiles \o TmpPaths(dfs)

\* the map from temporary path to original file name
FilenameMap(dfs) ==
    [t \in {dfs[k].TmpPath : k \in 1..Len(dfs)} |->
        dfs[CHOOSE k \in 1..Len(dfs) :
                /\ dfs[k].TmpPath = t
                /\ \A j \in 1..Len(dfs) : dfs[j].TmpPath = t => j <= k].Filename]

\* a deferred call
Deferred(fn, path) == [fn |-> fn, path |-> path]

\* the lines of the preview
RECURSIVE PreviewLines(_, _)
PreviewLines(fs, map) ==
    IF fs = <<>> THEN <<>>
    ELSE << IF Head(fs) \in DOMAIN map THEN "  " \o map[Head(fs)] \o " (from URL)"
            ELSE "  " \o Head(fs) >> \o PreviewLines(Tail(fs), map)

Preview(fs, map) ==
    <<"Will upload " \o ToString(Len(fs)) \o " files:">> \o PreviewLines(fs, map)
    \o (IF flags.zip
        THEN <<"Zip mode: will bundle as "
               \o (IF flags.zipName = "" THEN "archive_<timestamp>.zip" ELSE flags.zipName)>>
        ELSE <<>>)

\* a main that ignores --dry-run (not the program's)
PreviewModeOff(f) == FALSE

\* main: if *dryRun
PreviewMode(f) == f.dryRun

\* after the loop: the cleanup is deferred, the local arguments are
\* expanded, the manifest is assembled and, in preview mode, printed
Collect ==
    /\ pc = "args"
    /\ idx > Len(args)
    /\ deferred' = Append(deferred, Deferred("removeDownloads", ""))
    /\ \E exp \in {IF Len(localArgs) > 0 THEN ExpandFiles(localArgs, flags.recursive)
                   ELSE [files |-> <<>>, err |-> NoErr]} :
       \E all \in {Manifest(exp.files, downloadedFiles)},
          map \in {FilenameMap(downloadedFiles)} :
           /\ expanded' = exp
           /\ IF exp.err # NoErr
              THEN /\ outputError(stderr, exp.err)
                   /\ UNCHANGED <<files, tmpToFilename, stdout>>
              ELSE /\ files' = all
                   /\ tmpToFilename' = map
                   /\ IF Len(all) = 0
                      THEN /\ outputError(stderr, Err("no files to upload", ""))
                           /\ UNCHANGED stdout
                      ELSE IF PreviewMode(flags)
                      THEN /\ stdout' = stdout \o Preview(all, map)
                           /\ Exit(0)
                           /\ UNCHANGED stderr
                      ELSE /\ pc' = "config"
                           /\ UNCHANGED <<stdout, stderr, exitCode>>
    /\ UNCHANGED <<args, flags, idx, localArgs, downloadedFiles, disk, createLog,
                   removeLog, nextTmp, net, sources, merged, config, ossPrefix, baseDir, zipName, zipPath, zipEntries,
                   results, jsonOut, checkResult, now>>

(***************************************************************************)
(* main: configuration and client                                          *)
(***************************************************************************)
\* getConfig in main, finding src around it
GetConfigIn(src) ==
    /\ \E got \in {getConfig(src, flags.config)} :
           /\ sources' = src
           /\ merged' = got.merged
           /\ IF got.err # NoErr
              THEN /\ outputError(stderr, got.err)
                   /\ UNCHANGED config
              ELSE /\ config' = got.config
                   /\ pc' = "client"
                   /\ UNCHANGED <<stderr, exitCode>>
    /\ UNCHANGED <<args, flags, idx, localArgs, downloadedFiles, expanded, files,
                   tmpToFilename, deferred, disk, createLog, removeLog, nextTmp, net,
                   ossPrefix, baseDir, zipName, zipPath, zipEntries, results, stdout,
                   jsonOut, checkResult, now>>

\* how oss.New and client.Bucket end
ClientOutcomes == {"ok", "client", "bucket"}

\* main: baseDir
BaseDirOf(arguments, preservePath) ==
    IF preservePath /\ Len(arguments) > 0
    THEN IF IsDir(arguments[1]) THEN arguments[1] ELSE Dir(arguments[1])
    ELSE ""

\* the client and the bucket, then the prefix and the base directory
ClientSetup ==
    /\ pc = "client"
    /\ \E outcome \in ClientOutcomes :
          IF outcome = "client"
          THEN /\ outputError(stderr, Err("failed to create OSS client", ""))
               /\ UNCHANGED <<ossPrefix, baseDir, idx>>
          ELSE IF outcome = "bucket"
          THEN /\ outputError(stderr, Err("failed to get bucket", ""))
               /\ UNCHANGED <<ossPrefix, baseDir, idx>>
          ELSE /\ ossPrefix' = IF flags.prefix # "" THEN flags.prefix ELSE config.Prefix
               /\ baseDir' = BaseDirOf(args, flags.preservePath)
               /\ pc' = IF flags.zip THEN "zip" ELSE "upload"
               /\ idx' = 1
               /\ UNCHANGED <<stderr, exitCode>>
    /\ UNCHANGED <<args, flags, localArgs, downloadedFiles, expanded, files,
                   tmpToFilename, deferred, disk, createLog, removeLog, nextTmp, net,
                   sources, merged, config, zipName, zipPath, zipEntries, results, stdout,
                   jsonOut, checkResult, now>>

(***************************************************************************)
(* main: zip upload mode (createZip, addFileToZip)                         *)
(***************************************************************************)
\* an entry name in which the relative path comes before the name of a
\* downloaded file (not the program's)
ArchiveNamePathFirst(filePath, preservePath, base, filenameMap) ==
    IF preservePath /\ base # ""
    THEN The({IF rel.ok THEN rel.path ELSE Base(filePath) : rel \in {Rel(base, filePath)}})
    ELSE IF filePath \in DOMAIN filenameMap THEN filenameMap[filePath]
    ELSE Base(filePath)

\* addFileToZip: header.Name, the name of an entry in the archive
ArchiveName(filePath, preservePath, base, filenameMap) ==
    IF filePath \in DOMAIN filenameMap THEN filenameMap[filePath]
    ELSE IF preservePath /\ base # ""
    THEN The({IF rel.ok THEN rel.path ELSE Base(filePath) : rel \in {Rel(base, filePath)}})
    ELSE Base(filePath)

ArchiveNames(fs, preservePath, base, filenameMap) ==
    [k \in 1..Len(fs) |-> ArchiveName(fs[k], preservePath, base, filenameMap)]

\* main: filesIncluded[i]
IncludedName(f, preservePath, base, filenameMap) ==
    IF f \in DOMAIN filenameMap THEN filenameMap[f]
    ELSE IF preservePath /\ base # ""
    THEN The({IF rel.ok THEN rel.path ELSE Base(f) : rel \in {Rel(base, f)}})
    ELSE Base(f)

\* main: filesIncluded
FilesIncluded(fs, preservePath, base, filenameMap) ==
    [i \in 1..Len(fs) |-> IncludedName(fs[i], preservePath, base, filenameMap)]

\* os.CreateTemp("", "oss-upload-*.zip")
ZipTmpPath(n) == "/tmp/oss-upload-" \o ToString(n) \o ".zip"

\* whether a file of the manifest can be opened and read
Readable(file) == (Exists(file) /\ ~IsDir(file)) \/ file \in disk

\* how createZip ends: failAt = 0 and create for success, ~create when
\* CreateTemp fails, failAt = k when adding entry k (or, past the last
\* entry, closing the archive) fails
ZipOutcomes(fs) ==
    {[create |-> FALSE, failAt |-> 0]}
    \cup {[create |-> TRUE, failAt |-> k] : k \in 0..(Len(fs) + 1)}

\* the entry at which createZip stops: the first one that cannot be read or,
\* if it comes first, the one at which the outcome fails; 0 when none
FirstFailure(fs, failAt) ==
    The({IF unreadable # {} /\ (failAt = 0 \/ Min(unreadable) < failAt)
         THEN Min(unreadable) ELSE failAt :
            unreadable \in {{k \in 1..Len(fs) : ~Readable(fs[k])}}})

\* main: autoGenerated
AutoGenerated(name) == name = ""

\* an archive that is left on disk when an entry fails (not the program's)
OnZipErrorKeep(tmpPath, written, failed) ==
    /\ zipEntries' = written
    /\ disk' = disk \cup {tmpPath}
    /\ outputError(stderr, Err("failed to create zip", failed))
    /\ UNCHANGED <<zipPath, removeLog, deferred>>

\* createZip fails after CreateTemp: its deferred closure removes the
\* archive, main reports the error; written are the entries added before
OnZipError(tmpPath, written, failed) ==
    /\ zipEntries' = written
    /\ removeLog' = Append(removeLog, tmpPath)
    /\ outputError(stderr, Err("failed to create zip", failed))
    /\ UNCHANGED <<zipPath, disk, deferred>>

\* createZip and the deferred os.Remove(zipPath)
CreateZip ==
    /\ pc = "zip"
    /\ \E outcome \in ZipOutcomes(files) :
          \E name \in {IF AutoGenerated(flags.zipName)
                        THEN "archive_" \o Timestamp(now) \o ".zip"
                        ELSE flags.zipName},
             tmpPath \in {ZipTmpPath(nextTmp)},
             names \in {ArchiveNames(files, flags.preservePath, baseDir, tmpToFilename)},
             stop \in {FirstFailure(files, outcome.failAt)} :
              /\ zipName' = name
              /\ IF ~outcome.create
                 THEN /\ outputError(stderr, Err("failed to create zip", ""))
                      /\ UNCHANGED <<zipPath, zipEntries, disk, createLog, removeLog,
                                     nextTmp, deferred>>
                 ELSE /\ createLog' = Append(createLog, tmpPath)
                      /\ nextTmp' = nextTmp + 1
                      /\ IF stop # 0
                         THEN OnZipError(tmpPath, SubSeq(names, 1, stop - 1),
                                         IF stop <= Len(files) THEN files[stop] ELSE "")
                         ELSE /\ zipEntries' = names
                              /\ zipPath' = tmpPath
                              /\ disk' = disk \cup {tmpPath}
                              /\ deferred' = Append(deferred, Deferred("removeZip", tmpPath))
                              /\ pc' = "zipput"
                              /\ UNCHANGED <<removeLog, stderr, exitCode>>
    /\ UNCHANGED <<args, flags, idx, localArgs, downloadedFiles, expanded, files,
                   tmpToFilename, net, sources, merged, config, ossPrefix, baseDir,
                   results, stdout, jsonOut, checkResult, now>>

\* a key of the archive stamped whenever --no-timestamp is off (not the
\* program's)
SkipStampFlagOnly(noTimestamp, autoGenerated) == noTimestamp

\* main: *noTimestamp || autoGenerated, the noTimestamp of the archive's key
SkipStamp(noTimestamp, autoGenerated) == noTimestamp \/ autoGenerated

\* the upload of the archive and the result of zip mode
ZipPut ==
    /\ pc = "zipput"
    /\ \E ok \in BOOLEAN :
          \E ossKey \in {generateOSSKey(zipName, ossPrefix,
                             SkipStamp(flags.noTimestamp, AutoGenerated(flags.zipName)),
                             now)},
             sent \in {ok /\ Readable(zipPath)} :
              /\ net' = Append(net, NetCall("PUT", ossKey, zipPath, sent))
              /\ IF ~sent
                 THEN /\ outputError(stderr, Err("upload failed", ""))
                      /\ UNCHANGED <<stdout, jsonOut>>
                 ELSE /\ outputResult([ZeroResult EXCEPT
                            !.Success = TRUE, !.Mode = "zip", !.ZipName = zipName,
                            !.FilesIncluded = FilesIncluded(files, flags.preservePath,
                                                            baseDir, tmpToFilename),
                            !.URL = getFileURL(config, ossKey)])
                      /\ pc' = "return"
                      /\ UNCHANGED <<stderr, exitCode>>
    /\ UNCHANGED <<args, flags, idx, localArgs, downloadedFiles, expanded, files,
                   tmpToFilename, deferred, disk, createLog, removeLog, nextTmp, sources,
                   merged, config, ossPrefix, baseDir, zipName, zipPath, zipEntries,
                   results, checkResult, now>>

(***************************************************************************)
(* main: separate upload mode                                              *)
(***************************************************************************)
\* displayName of a manifest entry
DisplayName(file, filenameMap) ==
    IF file \in DOMAIN filenameMap THEN filenameMap[file] ELSE Base(file)

\* a key name that is the path of the file also for a downloaded file (not
\* the program's)
KeyNameOfPath(file, filenameMap) == file

\* keyName of a manifest entry
KeyName(file, filenameMap) ==
    IF file \in DOMAIN filenameMap THEN filenameMap[file] ELSE file

\* a failed put that is only noted, the loop going on (not the program's)
OnPutErrorContinue(displayName) ==
    /\ stderr' = Append(stderr, ErrLine("note", Err("failed to upload", displayName)))
    /\ idx' = idx + 1
    /\ UNCHANGED <<pc, exitCode, results>>

\* a failed put: the error is reported and the process exits
OnPutError(displayName) ==
    /\ outputError(stderr, Err("failed to upload", displayName))
    /\ UNCHANGED <<idx, results>>

\* a put that went through: its record is appended
OnPutOK(displayName, url) ==
    /\ results' = Append(results, [File |-> displayName, URL |-> url])
    /\ idx' = idx + 1
    /\ UNCHANGED <<pc, stderr, exitCode>>

\* the loop over the manifest: one put per entry
UploadOne ==
    /\ pc = "upload"
    /\ idx <= Len(files)
    /\ \E ok \in BOOLEAN :
          \E file \in {files[idx]} :
          \E displayName \in {DisplayName(file, tmpToFilename)},
             ossKey \in {generateOSSKey(KeyName(file, tmpToFilename), ossPrefix,
                                        flags.noTimestamp, now)},
             sent \in {ok /\ Readable(file)} :
              /\ net' = Append(net, NetCall("PUT", ossKey, file, sent))
              /\ IF ~sent THEN OnPutError(displayName)
                 ELSE OnPutOK(displayName, getFileURL(config, ossKey))
    /\ UNCHANGED <<args, flags, localArgs, downloadedFiles, expanded, files,
                   tmpToFilename, deferred, disk, createLog, removeLog, nextTmp, sources,
                   merged, config, ossPrefix, baseDir, zipName, zipPath, zipEntries,
                   stdout, jsonOut, checkResult, now>>

\* after the loop: the result of separate mode
UploadDone ==
    /\ pc = "upload"
    /\ idx > Len(files)
    /\ outputResult([ZeroResult EXCEPT
          !.Success = TRUE, !.Mode = "separate", !.Results = results])
    /\ pc' = "return"
    /\ UNCHANGED <<args, flags, idx, localArgs, downloadedFiles, expanded, files,
                   tmpToFilename, deferred, disk, createLog, removeLog, nextTmp, net,
                   sources, merged, config, ossPrefix, baseDir, zipName, zipPath,
                   zipEntries, results, stderr, exitCode, checkResult, now>>

(***************************************************************************)
(* main returns: the deferred calls run, last deferred first               *)
(***************************************************************************)
\* the paths one deferred call removes
RemovedBy(d) ==
    IF d.fn = "removeZip" THEN <<d.path>> ELSE TmpPaths(downloadedFiles)

\* the os.Remove calls of the deferred calls ds, run last first
RECURSIVE RunDeferred(_)
RunDeferred(ds) ==
    IF ds = <<>> THEN <<>>
    ELSE RemovedBy(ds[Len(ds)]) \o RunDeferred(SubSeq(ds, 1, Len(ds) - 1))

Return ==
    /\ pc = "return"
    /\ \E removals \in {RunDeferred(deferred)} :
           /\ removeLog' = removeLog \o removals
           /\ disk' = disk \ {removals[k] : k \in 1..Len(removals)}
    /\ deferred' = <<>>
    /\ Exit(0)
    /\ UNCHANGED <<args, flags, idx, localArgs, downloadedFiles, expanded, files,
                   tmpToFilename, createLog, nextTmp, net, sources, merged, config,
                   ossPrefix, baseDir, zipName, zipPath, zipEntries, results, stdout,
                   jsonOut, stderr, checkResult, now>>

(***************************************************************************)
(* The configuration sources a run may find around it.                     *)
(***************************************************************************)
\* a file that sets all six settings, tagged t
FullLines(t) ==
    << "# settings of " \o t,
       "OSS_ACCESS_KEY_ID=id" \o t,
       "OSS_ACCESS_KEY_SECRET=sec" \o t,
       "OSS_BUCKET_NAME=bkt" \o t,
       "OSS_ENDPOINT=ep" \o t \o ".example.com",
       "OSS_DOMAIN=cdn" \o t \o ".example.com",
       "OSS_PREFIX=/up" \o t \o "/" >>

\* a file that sets the key id and the endpoint, quoted
PartLines(t) ==
    << "OSS_ACCESS_KEY_ID = \"id" \o t \o "\"",
       "",
       "  OSS_ENDPOINT='ep" \o t \o ".example.com'",
       "not a setting" >>

\* a file that sets the secret, the bucket and the prefix, and the
\* endpoint to the empty string
RestLines(t) ==
    << "OSS_ACCESS_KEY_SECRET=sec" \o t,
       "OSS_BUCKET_NAME=bkt" \o t,
       "OSS_ENDPOINT=",
       "OSS_PREFIX=up" \o t >>

LayerFiles(t) ==
    {NoFile, FileOf(<<>>), FileOf(FullLines(t)), FileOf(PartLines(t)), FileOf(RestLines(t))}

\* the environment variables: none, all six, the key id, the secret and the bucket
EnvironChoices ==
    { <<>>,
      [k \in {"OSS_ACCESS_KEY_ID", "OSS_ACCESS_KEY_SECRET", "OSS_BUCKET_NAME",
              "OSS_ENDPOINT", "OSS_DOMAIN", "OSS_PREFIX"} |->
          IF k = "OSS_ACCESS_KEY_ID" THEN "idE"
          ELSE IF k = "OSS_ACCESS_KEY_SECRET" THEN "secE"
          ELSE IF k = "OSS_BUCKET_NAME" THEN "bktE"
          ELSE IF k = "OSS_ENDPOINT" THEN "https://epE.example.com"
          ELSE IF k = "OSS_DOMAIN" THEN "" ELSE "upE"],
      [k \in {"OSS_ACCESS_KEY_ID"} |-> "idE"],
      [k \in {"OSS_ACCESS_KEY_SECRET", "OSS_BUCKET_NAME"} |->
          IF k = "OSS_ACCESS_KEY_SECRET" THEN "secE" ELSE "bktE"] }

\* every combination of sources, for a run with --config customConfigPath
\* (the layered files are then not read) or without
AllSources(customConfigPath) ==
    IF customConfigPath # ""
    THEN {[home |-> h, skill |-> NoFile, cwd |-> NoFile, custom |-> c, environ |-> e] :
             h \in {NoFile, FileOf(FullLines("H"))},
             c \in LayerFiles("X"),
             e \in EnvironChoices}
    ELSE {[home |-> h, skill |-> k, cwd |-> c, custom |-> NoFile, environ |-> e] :
             h \in LayerFiles("H") \cup {NoDir},
             k \in LayerFiles("S") \cup {NoDir},
             c \in LayerFiles("C"),
             e \in EnvironChoices}

\* the sources of the upload runs: complete from one file, complete only
\* after merging, two required settings missing, nothing at all; with
\* --config, that file unreadable, complete or with settings missing
PipelineSources(customConfigPath) ==
    IF customConfigPath # ""
    THEN {[NoSources EXCEPT !.home = FileOf(FullLines("H")), !.custom = c] :
             c \in {NoFile, FileOf(FullLines("X")), FileOf(RestLines("X"))}}
    ELSE
    { [NoSources EXCEPT !.home = FileOf(FullLines("H"))],
      [NoSources EXCEPT !.cwd = FileOf(PartLines("C")),
                        !.environ = [k \in {"OSS_ACCESS_KEY_SECRET", "OSS_BUCKET_NAME"} |->
                                        IF k = "OSS_ACCESS_KEY_SECRET" THEN "secE" ELSE "bktE"]],
      [NoSources EXCEPT !.home = FileOf(RestLines("H"))],
      NoSources }

(***************************************************************************)
(* The runs of the program.                                                *)
(***************************************************************************)
\* --check
CheckEnv ==
    /\ pc = "start"
    /\ ~flags.version
    /\ flags.check
    /\ \E src \in AllSources(flags.config) : CheckEnvIn(src)

\* main: config, err := getConfig()
GetConfigStep ==
    /\ pc = "config"
    /\ \E src \in PipelineSources(flags.config) : GetConfigIn(src)

\* expandFiles called on its own
ExpandCall ==
    /\ pc = "expandFiles"
    /\ expanded' = ExpandFiles(localArgs, flags.recursive)
    /\ pc' = "exited"
    /\ UNCHANGED <<args, flags, idx, localArgs, downloadedFiles, files, tmpToFilename,
                   deferred, disk, createLog, removeLog, nextTmp, net, sources, merged,
                   config, ossPrefix, baseDir, zipName, zipPath, zipEntries, results,
                   stdout, jsonOut, stderr, exitCode, checkResult, now>>

\* loadEnvFile and configFromEnvFile called on their own, on the file at
\* the --config path
LoadCall ==
    /\ pc = "loadEnvFile"
    /\ merged' = configFromEnvFile(loadEnvFile(sources.custom))
    /\ pc' = "exited"
    /\ UNCHANGED <<args, flags, idx, localArgs, downloadedFiles, expanded, files,
                   tmpToFilename, deferred, disk, createLog, removeLog, nextTmp, net,
                   sources, config, ossPrefix, baseDir, zipName, zipPath, zipEntries,
                   results, stdout, jsonOut, stderr, exitCode, checkResult, now>>

\* a second passes; the clock is read when the archive is named and when a
\* key is generated
Tick ==
    /\ pc \in {"zip", "zipput", "upload"}
    /\ now < MaxClock
    /\ now' = now + 1
    /\ UNCHANGED <<args, flags, pc, idx, localArgs, downloadedFiles, expanded, files,
                   tmpToFilename, deferred, disk, createLog, removeLog, nextTmp, net,
                   sources, merged, config, ossPrefix, baseDir, zipName, zipPath,
                   zipEntries, results, stdout, jsonOut, stderr, exitCode, checkResult>>

Next ==
    \/ ShowVersion
    \/ CheckEnv
    \/ Usage
    \/ BeginArgs
    \/ LocalArg
    \/ DownloadArg
    \/ Collect
    \/ GetConfigStep
    \/ ClientSetup
    \/ CreateZip
    \/ ZipPut
    \/ UploadOne
    \/ UploadDone
    \/ Return

Spec == Init /\ [][Next]_vars

(***************************************************************************)
(* expandFiles on its own, for every short list of patterns.               *)
(***************************************************************************)
\* the patterns: files, directories, a missing path and glob patterns, some
\* overlapping a named file, some matching directories
PatternChoices ==
    {"a.txt", "b.txt", "d", "d/s", "d/a.txt", "nope", "*.txt", "a*", "d*", "d/*", "?.txt",
     "z*"}

InitExpand ==
    /\ args \in SeqsUpTo(PatternChoices, MaxPatterns)
    /\ localArgs = args
    /\ flags \in {[DefaultFlags EXCEPT !.recursive = r] : r \in BOOLEAN}
    /\ pc = "expandFiles"
    /\ idx = 1
    /\ downloadedFiles = <<>>
    /\ expanded = [files |-> <<>>, err |-> NoErr]
    /\ files = <<>>
    /\ tmpToFilename = <<>>
    /\ deferred = <<>>
    /\ disk = {}
    /\ createLog = <<>>
    /\ removeLog = <<>>
    /\ nextTmp = 1
    /\ net = <<>>
    /\ sources = NoSources
    /\ merged = NilConfig
    /\ config = NilConfig
    /\ ossPrefix = ""
    /\ baseDir = ""
    /\ zipName = ""
    /\ zipPath = ""
    /\ zipEntries = <<>>
    /\ results = <<>>
    /\ stdout = <<>>
    /\ jsonOut = <<>>
    /\ stderr = <<>>
    /\ exitCode = -1
    /\ checkResult = ZeroCheck
    /\ now = 0

NextExpand == ExpandCall

SpecExpand == InitExpand /\ [][NextExpand]_vars

(***************************************************************************)
(* The upload runs, with the flags that shape keys and archive names and   *)
(* with the clock running.                                                 *)
(***************************************************************************)
\* the arguments: files of the same name in two directories, a file given
\* by an absolute path and URLs, one without a file name
UploadArgChoices == {"a.txt", "d/a.txt", "/e.txt", "https://h/image.png", "https://h/"}

\* the flags: separate mode with and without --no-timestamp and --prefix,
\* archive mode with and without --preserve-path, --no-timestamp, --zip-name
UploadFlagChoices ==
    {[DefaultFlags EXCEPT !.noTimestamp = nt, !.prefix = p] :
        nt \in BOOLEAN, p \in {"", "/p/"}}
    \cup {[DefaultFlags EXCEPT !.zip = TRUE, !.preservePath = pp, !.noTimestamp = nt,
                              !.zipName = zn] :
             pp \in BOOLEAN, nt \in BOOLEAN, zn \in {"", "out.zip"}}

InitUpload ==
    /\ args \in SeqsUpTo(UploadArgChoices, MaxArgs) \ {<<>>}
    /\ flags \in UploadFlagChoices
    /\ pc = "start"
    /\ InitRest

NextUpload ==
    \/ BeginArgs
    \/ LocalArg
    \/ DownloadArg
    \/ Collect
    \/ GetConfigStep
    \/ ClientSetup
    \/ CreateZip
    \/ ZipPut
    \/ UploadOne
    \/ UploadDone
    \/ Return
    \/ Tick

SpecUpload == InitUpload /\ [][NextUpload]_vars

(***************************************************************************)
(* loadEnvFile on its own, for every short file.                           *)
(***************************************************************************)
\* the lines: plain, quoted in one and in two layers, with a quote at one
\* end only or two different quotes, with a second "=", without "=", blank,
\* a comment, with blanks around the value and inside the quotes
LineChoices ==
    { "OSS_PREFIX=up",
      "OSS_PREFIX = \"up\"",
      "OSS_PREFIX='up'",
      "OSS_PREFIX=\"\"up\"\"",
      "OSS_PREFIX=\"up",
      "OSS_PREFIX=\"up'",
      "OSS_PREFIX=a=b",
      "OSS_PREFIX",
      "",
      "# OSS_PREFIX=no",
      "OSS_DOMAIN=  cdn.example.com  ",
      "OSS_PREFIX=\" up \"" }

InitParse ==
    /\ \E lines \in SeqsUpTo(LineChoices, MaxLines) :
          sources = [NoSources EXCEPT !.custom = FileOf(lines)]
    /\ args = <<>>
    /\ flags = [DefaultFlags EXCEPT !.config = "my.env"]
    /\ pc = "loadEnvFile"
    /\ idx = 1
    /\ localArgs = <<>>
    /\ downloadedFiles = <<>>
    /\ expanded = [files |-> <<>>, err |-> NoErr]
    /\ files = <<>>
    /\ tmpToFilename = <<>>
    /\ deferred = <<>>
    /\ disk = {}
    /\ createLog = <<>>
    /\ removeLog = <<>>
    /\ nextTmp = 1
    /\ net = <<>>
    /\ merged = NilConfig
    /\ config = NilConfig
    /\ ossPrefix = ""
    /\ baseDir = ""
    /\ zipName = ""
    /\ zipPath = ""
    /\ zipEntries = <<>>
    /\ results = <<>>
    /\ stdout = <<>>
    /\ jsonOut = <<>>
    /\ stderr = <<>>
    /\ exitCode = -1
    /\ checkResult = ZeroCheck
    /\ now = 0

NextParse == LoadCall

SpecParse == InitParse /\ [][NextParse]_vars

(***************************************************************************)
(* Properties of the runs.                                                 *)
(***************************************************************************)
\* the elements of a sequence
Range(seq) == {seq[k] : k \in 1..Len(seq)}

\* how many times x occurs in seq
Count(seq, x) == Cardinality({k \in 1..Len(seq) : seq[k] = x})

\* the process has ended
Terminal == pc = "exited"

\* the puts of the network log, in order
IsPut(call) == call.op = "PUT"

Puts == SelectSeq(net, IsPut)

\* the errors reported on stderr, in order
IsReport(line) == line.form \in {"json", "text"}

Reports == SelectSeq(stderr, IsReport)

\* the error the run ended with, NoErr when it reported none
LastError == IF Reports = <<>> THEN NoErr ELSE Reports[Len(Reports)].err

\* the URL arguments and the local arguments of the run, in argument order
IsLocal(arg) == ~isURL(arg)

URLArgs == SelectSeq(args, isURL)

LocalOnly == SelectSeq(args, IsLocal)

\* the temporary files the run created for its downloads
DownloadTemps == {t \in Range(createLog) : HasPrefix(t, "/tmp/oss-download-")}

\* C1: in every terminal state, every temporary file created by downloading
\* a URL argument is gone from the disk and was removed exactly once.
C1_TempsRemovedOnce ==
    Terminal => \A t \in DownloadTemps : t \notin disk /\ Count(removeLog, t) = 1

\* C2 as stated: a dry run issues no network call of any kind.
C2_PreviewNoNetwork == flags.dryRun => net = <<>>

\* C2: a dry run issues no upload; the only network calls it makes are the
\* retrievals of its URL arguments, in argument order, and when it ends
\* with exit code 0 it has retrieved every URL argument and printed the
\* list: a heading, one line per manifest entry and, in archive mode, the
\* line with the archive name.
C2_PreviewNoUpload ==
    flags.dryRun =>
        /\ Puts = <<>>
        /\ Len(net) <= Len(URLArgs)
        /\ \A k \in 1..Len(net) : net[k].op = "GET" /\ net[k].target = URLArgs[k]
        /\ (Terminal /\ exitCode = 0) =>
              /\ Len(net) = Len(URLArgs)
              /\ \A k \in 1..Len(net) : net[k].ok
              /\ Len(stdout) = 1 + Len(files) + (IF flags.zip THEN 1 ELSE 0)
              /\ stdout[1] = "Will upload " \o ToString(Len(files)) \o " files:"
              /\ flags.zip => HasPrefix(stdout[Len(stdout)], "Zip mode: will bundle as ")
              /\ jsonOut = <<>>

\* a dry run of a local file and a URL, in archive mode, that printed its list
C2_Witness ==
    /\ Terminal
    /\ exitCode = 0
    /\ flags.dryRun
    /\ flags.zip
    /\ args = <<"a.txt", "https://h/image.png">>
    /\ Len(net) = 1
    /\ Len(stdout) = 4

\* C3: in separate mode a failed put is the last network call of the run:
\* the run has ended with exit code 1 and exactly one error report, for
\* that upload, and nothing on stdout: no result and no URL line, also for
\* the entries uploaded before it.
C3_FailFast ==
    ~flags.zip =>
        \A i \in 1..Len(net) :
            (net[i].op = "PUT" /\ ~net[i].ok) =>
                /\ i = Len(net)
                /\ Terminal
                /\ exitCode = 1
                /\ Len(Reports) = 1
                /\ LastError.kind = "failed to upload"
                /\ Len(Puts) <= Len(files)
                /\ net[i].file = files[Len(Puts)]
                /\ jsonOut = <<>>
                /\ stdout = <<>>

\* the second put of a manifest of three or more failed after the first
\* went through
C3_Witness ==
    /\ ~flags.zip
    /\ Terminal
    /\ Len(files) >= 3
    /\ Len(Puts) = 2
    /\ Puts[1].ok
    /\ ~Puts[2].ok
    /\ results # <<>>

\* the entries the local arguments expand to, argument by argument
RECURSIVE LocalEntries(_, _)
LocalEntries(patterns, recursive) ==
    IF patterns = <<>> THEN <<>>
    ELSE ExpandOne(patterns[1], recursive).files \o LocalEntries(Tail(patterns), recursive)

\* the name under which manifest entry k is reported
EntryName(k) ==
    IF k <= Len(expanded.files) THEN Base(files[k])
    ELSE downloadedFiles[k - Len(expanded.files)].Filename

\* C4: the manifest is the entries of the local arguments, in argument
\* order, followed by the downloads of the URL arguments, in argument
\* order; in separate mode put k is the put of manifest entry k, result k is
\* the record of manifest entry k with the URL of put k, and a run that ends
\* well has issued one put per entry and printed the records (the URL lines
\* in quiet mode) in that order.
C4_ManifestOrder ==
    files # <<>> =>
        /\ localArgs = LocalOnly
        /\ [k \in 1..Len(downloadedFiles) |-> downloadedFiles[k].OrigURL] = URLArgs
        /\ expanded.files = LocalEntries(LocalOnly, flags.recursive)
        /\ files = expanded.files
                   \o [k \in 1..Len(downloadedFiles) |-> downloadedFiles[k].TmpPath]
        /\ ~flags.zip =>
              /\ Len(Puts) <= Len(files)
              /\ \A k \in 1..Len(Puts) : Puts[k].file = files[k]
              /\ Len(results) <= Len(Puts)
              /\ \A k \in 1..Len(results) :
                    /\ Puts[k].ok
                    /\ results[k].File = EntryName(k)
                    /\ results[k].URL = getFileURL(config, Puts[k].target)
              /\ (Terminal /\ exitCode = 0 /\ ~flags.dryRun) =>
                    /\ Len(Puts) = Len(files)
                    /\ Len(results) = Len(files)
                    /\ IF flags.quiet
                       THEN stdout = [k \in 1..Len(results) |-> results[k].URL]
                       ELSE /\ Len(jsonOut) = 1
                            /\ jsonOut[1].Results = results

\* a separate-mode run of a URL and then a glob pattern ended well: the two
\* local entries were put first, the download last
C4_Witness ==
    /\ Terminal
    /\ exitCode = 0
    /\ ~flags.zip
    /\ ~flags.dryRun
    /\ args = <<"https://h/image.png", "*.txt">>
    /\ Len(results) = 3
    /\ results[3].File = "image.png"

\* the fields of a Config and the field behind each required setting
ConfigFields ==
    {"AccessKeyID", "AccessKeySecret", "BucketName", "Endpoint", "Domain", "Prefix"}

RequiredOrder == <<"access_key_id", "access_key_secret", "bucket_name", "endpoint">>

RequiredField(k) ==
    IF k = "access_key_id" THEN "AccessKeyID"
    ELSE IF k = "access_key_secret" THEN "AccessKeySecret"
    ELSE IF k = "bucket_name" THEN "BucketName"
    ELSE "Endpoint"

\* the fragment of one source: what the file sets, nothing when there is no
\* such file
FragmentOf(file) ==
    IF file.state = "file" THEN ConfigOf(ParseLines(<<>>, file.lines)) ELSE EmptyConfig

\* the fragments of a run, lowest priority first
Fragments(src, customConfigPath) ==
    IF customConfigPath # ""
    THEN <<FragmentOf(src.custom), ConfigOf(src.environ)>>
    ELSE <<FragmentOf(src.home), FragmentOf(src.skill), FragmentOf(src.cwd),
           ConfigOf(src.environ)>>

\* the fragments that set field f
Setters(frs, f) == {k \in 1..Len(frs) : frs[k][f] # ""}

\* C5: each field of the merged configuration is the value of the
\* highest-priority fragment that sets it, and is empty exactly when no
\* fragment sets it; a source that is missing counts as a fragment that
\* sets nothing, and without --config the merge always happens.
C5_MergePriority ==
    /\ (Terminal /\ flags.check /\ flags.config = "") => ~merged.isNil
    /\ ~merged.isNil =>
          \E frs \in {Fragments(sources, flags.config)} :
             \A f \in ConfigFields :
                \E setters \in {Setters(frs, f)} :
                   /\ merged[f] = IF setters = {} THEN "" ELSE frs[Max(setters)][f]
                   /\ merged[f] = "" <=> setters = {}

\* the key id comes from the environment, the secret from the file of the
\* current directory, the endpoint from the skill's file (the file of the
\* current directory sets it to nothing), the domain from the global file
C5_Witness ==
    /\ flags.check
    /\ ~merged.isNil
    /\ sources.cwd.state = "file"
    /\ merged.AccessKeyID = "idE"
    /\ merged.AccessKeySecret = "secC"
    /\ merged.Endpoint = "epS.example.com"
    /\ merged.Domain = "cdnH.example.com"

\* C6: when a required field of the merged configuration is empty, an
\* upload run ends with exit code 1 and a configuration error whose text
\* names each empty required field and no other, and has issued no put; and
\* whenever a put was issued, the four required fields of the configuration
\* in use are non-empty.
C6_RequiredFields ==
    /\ (~flags.check /\ ~merged.isNil
        /\ \E k \in RequiredKeys : merged[RequiredField(k)] = "") =>
          /\ Terminal
          /\ exitCode = 1
          /\ LastError.kind = "missing config"
          /\ \A k \in RequiredKeys :
                merged[RequiredField(k)] = "" <=> Index(LastError.what, k) # -1
          /\ Puts = <<>>
    /\ Puts # <<>> =>
          \A k \in RequiredKeys :
             config[RequiredField(k)] # "" /\ merged[RequiredField(k)] # ""

\* an upload run ended on a configuration without key id and endpoint
C6_Witness ==
    /\ ~flags.check
    /\ Terminal
    /\ merged.AccessKeyID = ""
    /\ merged.Endpoint = ""
    /\ merged.BucketName # ""
    /\ LastError = Err("missing config", "access_key_id, endpoint")

\* whether required setting k is empty in the merged configuration
EmptyAfterMerge(k) == merged[RequiredField(k)] = ""

\* C7: the report of --check follows the merged configuration: env_vars[f]
\* is true exactly when required field f is not empty after the merge,
\* missing is the empty required fields in the order access_key_id,
\* access_key_secret, bucket_name, endpoint, ready is true iff missing is
\* empty, and the exit code is 1 iff ready is false.
C7_CheckReport ==
    checkResult.printed =>
        /\ \A k \in RequiredKeys : checkResult.EnvVars[k] = ~EmptyAfterMerge(k)
        /\ checkResult.Missing = SelectSeq(RequiredOrder, EmptyAfterMerge)
        /\ checkResult.Ready = (checkResult.Missing = <<>>)
        /\ exitCode = IF checkResult.Ready THEN 0 ELSE 1

\* C10: a run ends with the error "no files to upload" only when its final
\* manifest, the local entries and the downloads, is empty: not when a URL
\* was downloaded; and a run that got past collection has a manifest.
C10_EmptyManifestError ==
    /\ LastError.kind = "no files to upload" =>
          expanded.files = <<>> /\ downloadedFiles = <<>>
    /\ (Terminal /\ exitCode = 0 /\ Len(args) > 0) => files # <<>>

\* the arguments are existing files and glob patterns
FilesAndGlobs(patterns) ==
    \A k \in 1..Len(patterns) :
       ContainsAny(patterns[k], "*?") \/ (Exists(patterns[k]) /\ ~IsDir(patterns[k]))

\* C8: for existing files and glob patterns, the list expandFiles returns
\* holds each path once.
C8_OneEntryPerPath ==
    (Terminal /\ FilesAndGlobs(localArgs) /\ expanded.err = NoErr) =>
        \A p \in Range(expanded.files) : Count(expanded.files, p) = 1

\* whether a single argument makes expandFiles fail when recursive is off
FailsAlone(pattern) ==
    \/ IsDir(pattern)
    \/ ~ContainsAny(pattern, "*?") /\ ~Exists(pattern)
    \/ ContainsAny(pattern, "*?") /\ \A p \in FSPaths : ~Match(pattern, p)

\* the files below a directory
Descendants(dir) == {p \in FSPaths : HasPrefix(p, dir \o "/") /\ ~IsDir(p)}

ArchiveBuilt == zipPath # ""

\* C11: an archive that was built holds one entry per manifest entry, in
\* manifest order, and no two of its entries have the same name.
C11_ArchiveEntries ==
    ArchiveBuilt =>
        /\ Len(zipEntries) = Len(files)
        /\ \A k \in 1..Len(zipEntries) : Base(zipEntries[k]) = Base(EntryName(k))
        /\ \A j, k \in 1..Len(zipEntries) : j # k => zipEntries[j] # zipEntries[k]

\* manifest entry k is a downloaded file
IsDownloadEntry(k) == k > Len(expanded.files)

\* name is the path of file relative to base: joined to base it is file
IsRelativeTo(name, base, file) == Clean(base \o "/" \o name) = Clean(file)

\* file has a path relative to base: both are absolute or both relative
HasRelative(base, file) == HasPrefix(base, "/") <=> HasPrefix(file, "/")

\* the files_included list of the printed result
ReportedNames == jsonOut[1].FilesIncluded

ArchiveTemps == {t \in Range(createLog) : HasPrefix(t, "/tmp/oss-upload-")}

\* C13: when the run has ended, after a failed upload of the archive as
\* after a successful one, no temporary file of the archive is on disk.
C13_ArchiveReleased ==
    Terminal => \A t \in ArchiveTemps : t \notin disk

\* how many timestamps a key carries
Stamps(key) == Cardinality(Occurrences(key, "20260101_"))

\* the seconds of the run
Clock == 0..MaxClock

\* C14: the key under which the archive is put has, as its file name, the
\* auto-generated name itself, with its one timestamp, when no --zip-name
\* was given, whatever --no-timestamp says; for a given name it is that name
\* when --no-timestamp is set and else that name with the time of the put
\* before its extension.
C14_ArchiveKeyStamp ==
    flags.zip =>
        \A k \in 1..Len(Puts) :
            \E key \in {Puts[k].target} :
                IF flags.zipName = ""
                THEN /\ Base(key) = zipName
                     /\ \E t \in Clock : zipName = "archive_" \o Timestamp(t) \o ".zip"
                     /\ Stamps(key) = 1
                ELSE IF flags.noTimestamp
                THEN Base(key) = flags.zipName /\ Stamps(key) = 0
                ELSE /\ Base(key) = TrimSuffix(flags.zipName, ".zip") \o "_"
                                     \o Timestamp(now) \o ".zip"
                     /\ Stamps(key) = 1

\* an archive named at second 0 was put at second 1, without --zip-name and
\* without --no-timestamp
C14_Witness ==
    /\ flags.zip
    /\ flags.zipName = ""
    /\ ~flags.noTimestamp
    /\ zipName = "archive_20260101_000000.zip"
    /\ now = 1
    /\ Len(Puts) = 1
    /\ Puts[1].ok

\* the display name of the download behind manifest entry k
DisplayOf(k) == downloadedFiles[k - Len(expanded.files)].Filename

\* the names a download of url may be given: the file name of the
\* Content-Disposition header the modelled servers send, or the last
\* segment of the URL's path, or "downloaded_file" when it has none
DisplayChoices(url) ==
    {"r.pdf", IF url = "https://h/image.png" THEN "image.png" ELSE "downloaded_file"}

\* the file name of a key made from name at second t
KeyFileName(name, t) ==
    IF flags.noTimestamp THEN Base(name)
    ELSE TrimSuffix(Base(name), Ext(Base(name))) \o "_" \o Timestamp(t) \o Ext(Base(name))

\* text holds the generated name of a temporary download file
LeaksTemp(text) == Index(text, "oss-download-") # -1

\* C15: a downloaded entry goes by its display name, which is the file
\* name of the Content-Disposition header, else the last segment of the
\* URL's path, else "downloaded_file": the key of its put is made from the
\* base name of the display name, its result record has the display name as
\* file, its archive entry and its files_included entry are the display
\* name; and no key, record, URL or archive entry holds the name of the
\* temporary file.
C15_DisplayNameEverywhere ==
    /\ \A j \in 1..Len(downloadedFiles) :
          downloadedFiles[j].Filename \in DisplayChoices(downloadedFiles[j].OrigURL)
    /\ ~flags.zip =>
          /\ \A k \in 1..Len(Puts) :
                IsDownloadEntry(k) =>
                   \E t \in Clock :
                      Puts[k].target = (IF ossPrefix = "" THEN ""
                                        ELSE Trim(ossPrefix, "/") \o "/")
                                       \o KeyFileName(DisplayOf(k), t)
          /\ \A k \in 1..Len(results) :
                IsDownloadEntry(k) => results[k].File = DisplayOf(k)
    /\ \A k \in 1..Len(zipEntries) : IsDownloadEntry(k) => zipEntries[k] = DisplayOf(k)
    /\ (flags.zip /\ jsonOut # <<>>) =>
          \A k \in 1..Len(files) : IsDownloadEntry(k) => ReportedNames[k] = DisplayOf(k)
    /\ \A k \in 1..Len(Puts) : ~LeaksTemp(Puts[k].target)
    /\ \A k \in 1..Len(results) : ~LeaksTemp(results[k].File) /\ ~LeaksTemp(results[k].URL)
    /\ \A k \in 1..Len(zipEntries) : ~LeaksTemp(zipEntries[k])
    /\ \A k \in 1..Len(jsonOut) :
          /\ ~LeaksTemp(jsonOut[k].URL)
          /\ \A i \in 1..Len(jsonOut[k].FilesIncluded) : ~LeaksTemp(jsonOut[k].FilesIncluded[i])

\* a separate-mode run uploaded a local file and a download of a URL
\* without a file name, under the key of "downloaded_file"
C15_Witness ==
    /\ ~flags.zip
    /\ flags.noTimestamp
    /\ Terminal
    /\ exitCode = 0
    /\ args = <<"https://h/", "a.txt">>
    /\ files = <<"a.txt", "/tmp/oss-download-1">>
    /\ results[2].File = "downloaded_file"
    /\ Base(Puts[2].target) = "downloaded_file"

\* the run ended with the error of a failed archive build
ZipBuildFailed == Terminal /\ LastError.kind = "failed to create zip"

\* C16: when adding an entry to the archive fails, the run ends with the
\* error and exit code 1, the entries written are the ones before the
\* failed entry and none after it, the archive file created is removed
\* once and is not on disk, no put is issued and no result is printed.
C16_ZipBuildAborts ==
    (ZipBuildFailed /\ ArchiveTemps # {}) =>
        /\ exitCode = 1
        /\ Puts = <<>>
        /\ jsonOut = <<>>
        /\ zipPath = ""
        /\ \A t \in ArchiveTemps : t \notin disk /\ Count(removeLog, t) = 1
        /\ Len(zipEntries) <= Len(files)
        /\ LastError.what # "" =>
              /\ Len(zipEntries) < Len(files)
              /\ files[Len(zipEntries) + 1] = LastError.what
        /\ zipEntries = SubSeq(ArchiveNames(files, flags.preservePath, baseDir,
                                            tmpToFilename), 1, Len(zipEntries))

\* the second of two entries failed after the first was written
C16_Witness ==
    /\ ZipBuildFailed
    /\ files = <<"a.txt", "d/a.txt">>
    /\ zipEntries = <<"a.txt">>
    /\ LastError.what = "d/a.txt"
    /\ createLog = <<"/tmp/oss-upload-1.zip">>
    /\ removeLog = <<"/tmp/oss-upload-1.zip">>

\* the lines of the file that was loaded
LoadedLines == sources.custom.lines

\* value without one layer of quotes, when it begins and ends with the same
\* quote character
StripOneLayer(value) ==
    IF /\ Len(value) >= 2
       /\ SubSeq(value, 1, 1) \in {"\"", "'"}
       /\ SubSeq(value, Len(value), Len(value)) = SubSeq(value, 1, 1)
    THEN SubSeq(value, 2, Len(value) - 1)
    ELSE value

\* the settings after one line read by the stated rule: split at the first
\* "=", blanks trimmed, one layer of matching quotes stripped
OneLayerLine(env, text) ==
    LET line == TrimSpace(text)
        eq   == Index(line, "=")
    IN  IF line = "" \/ HasPrefix(line, "#") \/ eq = -1 THEN env
        ELSE Put(env, TrimSpace(SubSeq(line, 1, eq)),
                 StripOneLayer(TrimSpace(SubSeq(line, eq + 2, Len(line)))))

RECURSIVE OneLayerLines(_, _)
OneLayerLines(env, lines) ==
    IF lines = <<>> THEN env
    ELSE OneLayerLines(OneLayerLine(env, lines[1]), Tail(lines))

\* C17: the settings loaded from a file are those of its KEY=VALUE lines
\* split at the first "=", with the blanks around the value and one layer
\* of matching quotes stripped, a second layer and a quote at one end only
\* being kept; lines without "=", blank lines and "#" lines add nothing.
C17_OneQuoteLayer ==
    (pc = "exited" /\ flags.config = "my.env" /\ args = <<>>) =>
        merged = ConfigOf(OneLayerLines(<<>>, LoadedLines))

\* C18: in a separate-mode run the keys of the puts of different files of
\* the manifest are pairwise distinct, and so are the URLs of their result
\* records: no put of the run overwrites an object put earlier in the run.
C18_DistinctKeys ==
    ~flags.zip =>
        /\ \A i, j \in 1..Len(Puts) :
              files[i] # files[j] => Puts[i].target # Puts[j].target
        /\ \A i, j \in 1..Len(results) :
              files[i] # files[j] => results[i].URL # results[j].URL

\* name leaves the root of the archive: it is absolute or has a ".." component
Escapes(name) == HasPrefix(name, "/") \/ ".." \in Range(SplitPath(name))

\* C19: with --preserve-path every entry name stays inside the root of the
\* archive: none is absolute and none has a ".." component, whatever the
\* arguments, the first of which alone gives the base directory.
C19_EntriesInsideRoot ==
    flags.preservePath => \A k \in 1..Len(zipEntries) : ~Escapes(zipEntries[k])

\* the temporary files of the downloads that succeeded
ManifestTemps == Range(TmpPaths(downloadedFiles))

\* the puts a run makes when none fails
PutsDue == IF flags.zip THEN 1 ELSE Len(files)

\* C20: no temporary file of a download is removed before its last use:
\* while the run has not ended every one of them is on disk, so it is when
\* its entry is put or added to the archive, and one is removed only by a
\* run that has ended with exit code 0 after the last of its puts returned
\* without error and the result was printed.
C20_TempsOutliveUse ==
    /\ ~Terminal => ManifestTemps \subseteq disk
    /\ \A t \in ManifestTemps :
          t \in Range(removeLog) =>
             /\ Terminal
             /\ exitCode = 0
             /\ Len(Puts) = PutsDue
             /\ \A k \in 1..Len(Puts) : Puts[k].ok
             /\ jsonOut # <<>>
    /\ \A k \in 1..Len(zipEntries) :
          (IsDownloadEntry(k) /\ pc = "zipput") => files[k] \in disk

\* a separate-mode run put a downloaded file and a local file, and removed
\* the temporary file when it ended
C20_Witness ==
    /\ Terminal
    /\ exitCode = 0
    /\ ~flags.zip
    /\ args = <<"https://h/image.png", "a.txt">>
    /\ Len(Puts) = 2
    /\ Puts[2].file = "/tmp/oss-download-1.png"
    /\ removeLog = <<"/tmp/oss-download-1.png">>

====
